---- MODULE Spec2Model ----
(***************************************************************************)
(* Model of the optimint node orchestrator (package node, src/state/state.go *)
(* lines 102-394) with the mock data availability client                    *)
(* (src/unnamed/part_000).  The three loops launched by Node.OnStart run    *)
(* as three processes; the mempool, the block store, the p2p client and     *)
(* the hashing of package types are collaborators of the node.              *)
(***************************************************************************)
EXTENDS Integers, Sequences, FiniteSets, TLC

\* ------------------------------------------------------------------ bounds

\* Number of distinct transactions the network delivers to the tx handler.
MaxTxs == 2

\* Number of firings of the aggregation ticker that are explored.
MaxTicks == 2

\* ------------------------------------------------------- program constants

\* var maxBlockSize = int64(32 * 1024)
maxBlockSize == 32768

\* State.InitialHeight: "should be 1, not 0, when starting from height 1".
InitialHeight == 1

\* ------------------------------------------------------------ value types

\* Transactions are opaque byte strings; a transaction is named by a number
\* and TxSize gives the length of its bytes.
Txs == 1..MaxTxs

TxSize(tx) == 8192 * tx

\* A nil error / an empty multierr.
NoErr == <<>>

\* The zero value of a [32]byte digest.
ZeroHash == <<>>

\* No constructor call is under way; a call that has not come back.
NoCall == [fn |-> "none"]

NoRet == [kind |-> "none"]

\* The nil *clist.CElement.
NilElem == 0

\* types.Hash(&Data): a digest of the canonical encoding of the transaction
\* list, order-sensitive.
HashData(data) == <<Len(data.Txs)>> \o data.Txs

\* types.Hash(&Header): a digest of the canonical encoding of every field.
HashHeader(hdr) ==
    <<hdr.Height, hdr.Time, Len(hdr.LastHeaderHash)>>
        \o hdr.LastHeaderHash \o hdr.DataHash

\* multierr.Append(left, right): nil when both are nil, else every non-nil
\* error of both, in order.
multierrAppend(left, right) == left \o right

\* ----------------------------------------------------------------- state

VARIABLES
    aggregator,   \* conf.Aggregator
    dalcKind,     \* which da.DataAvailabilityLayerClient registry.GetClient gave
    call,         \* a call of a constructor or initialiser, with its arguments
    ret,          \* what that call gave: nothing yet, a return, or a panic
    svc,          \* service.BaseService state of the Node
    startErr,     \* the error OnStart returned
    startLog,     \* the steps OnStart performed, in order
    p2pState,     \* the p2p.Client: "new", "started", "closed"
    dalcState,    \* the DA client: "init", "started", "stopped"
    txHandler,    \* whether P2P.SetTxHandler installed the handler
    stopLog,      \* the calls OnStop made and what each returned, in order
    stopErr,      \* the multierr OnStop logged
    ctxDone,      \* n.ctx is cancelled
    arrived,      \* transactions the network has handed to the tx handler
    sending,      \* handler calls blocked in  n.incomingTxCh <- tx
    pcRead,       \* mempoolReadLoop: "idle", "select", "exit"
    checked,      \* the CheckTx calls made, in order
    mempool,      \* the CListMempool's list of transactions, front first
    admitted,     \* the transactions CheckTx accepted, in order of acceptance
    removed,      \* how many entries, from the front, were removed from the list
    orphans,      \* the removed entries that were the tail when removed
    pcPub,        \* mempoolPublishLoop: "idle", "wait", "front", "send", "retry", "waitNext", "panic", "exit"
    next,         \* mempoolPublishLoop's cursor: a position of the list, or NilElem
    gossiped,     \* the transactions GossipTx sent successfully, in order
    pcAgg,        \* aggregationLoop: "idle", "select", "exit"
    ticks,        \* firings of tick.C consumed so far
    store,        \* the BlockStore: [blocks |-> height :> block, height |-> Height()]
    storeFresh,   \* the BlockStore holds only what the node itself saved
    daBlocks,     \* MockDataAvailabilityLayerClient.Blocks
    saves,        \* the blocks publishBlock saved, with Height() before each save
    lastTick      \* the last publishBlock call: the store and the DA client's
                  \* Blocks before it, what it reaped and what it returned

confVars == <<aggregator, dalcKind, call, ret>>
svcVars == <<svc, startErr, startLog, p2pState, dalcState, txHandler, stopLog, stopErr>>
readVars == <<arrived, sending, pcRead, checked>>
poolVars == <<mempool, admitted, removed, orphans>>
pubVars == <<pcPub, next, gossiped>>
aggVars == <<pcAgg, ticks, store, storeFresh, daBlocks, saves, lastTick>>

vars == <<confVars, svcVars, ctxDone, readVars, poolVars, pubVars, aggVars>>


\* ------------------------------------------------------------ collaborators

\* mempool.CListMempool.CheckTx on acceptance: a new entry at the tail.
PushBack(pool, tx) == Append(pool, tx)

\* mempool.CListMempool.ReapMaxBytesMaxGas(maxBytes, -1): the longest prefix of
\* the pooled transactions whose bytes fit maxBytes; nothing is removed.
RECURSIVE ReapFrom(_, _, _, _)
ReapFrom(pool, i, total, maxBytes) ==
    IF i > Len(pool) THEN <<>>
    ELSE IF total + TxSize(pool[i]) > maxBytes THEN <<>>
    ELSE <<pool[i]>> \o ReapFrom(pool, i + 1, total + TxSize(pool[i]), maxBytes)

ReapMaxBytesMaxGas(pool, maxBytes) == ReapFrom(pool, 1, 0, maxBytes)

\* mempool.CListMempool.TxsFront(): the first entry, nil when the list is empty.
TxsFront(pool) == IF Len(pool) = 0 THEN NilElem ELSE 1

\* CElement.Next() of the entry at position e of every entry the list ever
\* held: the entry pushed after it; nil for the tail, and for ever nil for an
\* entry that was the tail when it was removed.
ElemNext(pool, e) ==
    IF e \in orphans THEN NilElem
    ELSE IF e < Len(pool) THEN e + 1 ELSE NilElem

\* store.NewBlockStore(): no block, Height() = 0.
NewBlockStore == [blocks |-> <<>>, height |-> 0]

\* store.Store.Height()
Height(st) == st.height

\* store.Store.LoadBlock succeeds exactly for a height that was saved.
HasBlock(st, h) == h \in DOMAIN st.blocks

LoadBlock(st, h) == st.blocks[h]

\* store.Store.SaveBlock: persist by height key; Height() is the highest
\* height saved.
SaveBlock(st, block) ==
    LET h == block.Header.Height IN
    [blocks |-> [k \in DOMAIN st.blocks \cup {h} |->
                    IF k = h THEN block ELSE st.blocks[k]],
     height |-> IF h > st.height THEN h ELSE st.height]

\* MockDataAvailabilityLayerClient.SubmitBlock: append, answer StatusSuccess.
SubmitBlock(blocks, block) ==
    [Blocks |-> Append(blocks, block), Code |-> "StatusSuccess", Message |-> "OK"]

\* --------------------------------------------------------- block production

\* The first block of a chain, as a caller holding Node.BlockStore saves it
\* before the node is started.
GenesisBlock ==
    [Header |-> [Height |-> InitialHeight, Time |-> 0,
                 LastHeaderHash |-> ZeroHash,
                 DataHash |-> HashData([Txs |-> <<>>])],
     Data |-> [Txs |-> <<>>]]

\* The nil *types.Block that makeBlock returns beside an error.
NilBlock ==
    [Header |-> [Height |-> 0, Time |-> 0, LastHeaderHash |-> ZeroHash,
                 DataHash |-> ZeroHash],
     Data |-> [Txs |-> <<>>]]

\* makeBlock that copies the last block's LastHeaderHash instead of hashing
\* the last block's Header.
makeBlockStaleHash(st, height, txs, now) ==
    IF ~HasBlock(st, height - 1)
    THEN [err |-> <<"LoadBlock: not found">>, block |-> NilBlock]
    ELSE LET lastBlock == LoadBlock(st, height - 1)
             data == [Txs |-> txs]
         IN [err |-> NoErr,
             block |-> [Header |-> [Height |-> height, Time |-> now,
                                    LastHeaderHash |-> lastBlock.Header.LastHeaderHash,
                                    DataHash |-> HashData(data)],
                        Data |-> data]]

\* Node.makeBlock(height, txs) at wall-clock time now.
makeBlock(st, height, txs, now) ==
    IF ~HasBlock(st, height - 1)
    THEN [err |-> <<"LoadBlock: not found">>, block |-> NilBlock]
    ELSE LET lastBlock == LoadBlock(st, height - 1)
             data == [Txs |-> txs]
         IN [err |-> NoErr,
             block |-> [Header |-> [Height |-> height, Time |-> now,
                                    LastHeaderHash |-> HashHeader(lastBlock.Header),
                                    DataHash |-> HashData(data)],
                        Data |-> data]]

\* Node.broadcastBlock(ctx, block): returns nil; the DA client is not called.
broadcastBlock(blocks, block) == [Blocks |-> blocks, err |-> NoErr]

\* publishBlock without the  len(txs) == 0  return: an empty batch is built
\* into a block like any other.
publishBlockNoIdleSkip(pool, st, blocks, now, saveErr) ==
    LET txs == ReapMaxBytesMaxGas(pool, maxBlockSize)
        mb == makeBlock(st, Height(st) + 1, txs, now)
    IN IF mb.err # NoErr
       THEN [store |-> st, Blocks |-> blocks, err |-> mb.err, txs |-> txs,
             saved |-> FALSE]
       ELSE IF saveErr # NoErr
       THEN [store |-> st, Blocks |-> blocks, err |-> saveErr, txs |-> txs,
             saved |-> FALSE]
       ELSE [store |-> SaveBlock(st, mb.block), Blocks |-> blocks,
             err |-> NoErr, txs |-> txs, saved |-> TRUE]

\* publishBlock that saves the block it built even though makeBlock or
\* SaveBlock reported an error.
publishBlockSavesOnError(pool, st, blocks, now, saveErr) ==
    LET txs == ReapMaxBytesMaxGas(pool, maxBlockSize)
        idle == [store |-> st, Blocks |-> blocks, err |-> NoErr,
                 txs |-> txs, saved |-> FALSE]
    IN IF Len(txs) = 0 THEN idle
       ELSE LET mb == makeBlock(st, Height(st) + 1, txs, now) IN
            IF mb.err # NoErr THEN [idle EXCEPT !.err = mb.err]
            ELSE [store |-> SaveBlock(st, mb.block), Blocks |-> blocks,
                  err |-> saveErr, txs |-> txs, saved |-> TRUE]

\* Node.publishBlock(ctx): what one tick does to the store and the DA client;
\* saveErr is what BlockStore.SaveBlock returns, and a SaveBlock that fails
\* has stored nothing.
publishBlock(pool, st, blocks, now, saveErr) ==
    LET txs == ReapMaxBytesMaxGas(pool, maxBlockSize)
        idle == [store |-> st, Blocks |-> blocks, err |-> NoErr,
                 txs |-> txs, saved |-> FALSE]
    IN IF Len(txs) = 0 THEN idle
       ELSE LET mb == makeBlock(st, Height(st) + 1, txs, now) IN
            IF mb.err # NoErr THEN [idle EXCEPT !.err = mb.err]
            ELSE IF saveErr # NoErr THEN [idle EXCEPT !.err = saveErr]
            ELSE LET bc == broadcastBlock(blocks, mb.block) IN
                 [store |-> SaveBlock(st, mb.block), Blocks |-> bc.Blocks,
                  err |-> bc.err, txs |-> txs, saved |-> TRUE]

\* ------------------------------------------------------------------- Init

\* The node as NewNode returns it, for each configuration.
NodeInit ==
    /\ aggregator \in BOOLEAN
    /\ dalcKind \in {"mock", "other"}
    /\ svc = "created"
    /\ startErr = NoErr
    /\ startLog = <<>>
    /\ p2pState = "new"
    /\ dalcState = "init"
    /\ txHandler = FALSE
    /\ stopLog = <<>>
    /\ stopErr = NoErr
    /\ ctxDone = FALSE
    /\ arrived = {}
    /\ sending = {}
    /\ pcRead = "idle"
    /\ checked = <<>>
    /\ mempool = <<>>
    /\ admitted = <<>>
    /\ removed = 0
    /\ orphans = {}
    /\ pcPub = "idle"
    /\ next = NilElem
    /\ gossiped = <<>>
    /\ pcAgg = "idle"
    /\ ticks = 0
    /\ store = NewBlockStore
    /\ storeFresh = TRUE
    /\ daBlocks = <<>>
    /\ saves = <<>>
    /\ lastTick = [n |-> 0, store |-> NewBlockStore, Blocks |-> <<>>, txs |-> <<>>,
                    err |-> NoErr, saved |-> FALSE]

\* A node just constructed, and no other constructor call under way.
Init == NodeInit /\ call = NoCall /\ ret = NoRet


\* ------------------------------------------------------------ environment

\* A caller that holds the exported field Node.BlockStore saves the first
\* block of the chain before it starts the node.
SeedBlockStore ==
    /\ svc = "created"
    /\ storeFresh
    /\ store' = SaveBlock(store, GenesisBlock)
    /\ storeFresh' = FALSE
    /\ UNCHANGED <<confVars, svcVars, ctxDone, readVars, poolVars, pubVars,
                   pcAgg, ticks, daBlocks, saves, lastTick>>

\* The owner of the context given to NewNode cancels it.
CancelCtx ==
    /\ ~ctxDone
    /\ ctxDone' = TRUE
    /\ UNCHANGED <<confVars, svcVars, readVars, poolVars, pubVars, aggVars>>

\* ---------------------------------------------------------------- lifecycle

\* OnStart that installs the tx handler before it launches the loops.
onStartHandlerFirst(p2pErr, dalcErr, agg) ==
    IF p2pErr # NoErr
    THEN [err |-> <<"error while starting P2P client">> \o p2pErr,
          log |-> <<"P2P.Start">>,
          p2p |-> "new", dalc |-> "init", loops |-> FALSE, agg |-> FALSE,
          handler |-> FALSE]
    ELSE IF dalcErr # NoErr
    THEN [err |-> <<"error while starting data availability layer client">>
                      \o dalcErr,
          log |-> <<"P2P.Start", "dalc.Start">>,
          p2p |-> "started", dalc |-> "init", loops |-> FALSE, agg |-> FALSE,
          handler |-> FALSE]
    ELSE [err |-> NoErr,
          log |-> <<"P2P.Start", "dalc.Start", "P2P.SetTxHandler",
                    "go mempoolReadLoop", "go mempoolPublishLoop">>
                  \o (IF agg THEN <<"go aggregationLoop">> ELSE <<>>),
          p2p |-> "started", dalc |-> "started", loops |-> TRUE, agg |-> agg,
          handler |-> TRUE]

\* What Node.OnStart does when P2P.Start returns p2pErr and dalc.Start returns
\* dalcErr: the error returned, the steps performed in order, and what is
\* left started.
onStart(p2pErr, dalcErr, agg) ==
    IF p2pErr # NoErr
    THEN [err |-> <<"error while starting P2P client">> \o p2pErr,
          log |-> <<"P2P.Start">>,
          p2p |-> "new", dalc |-> "init", loops |-> FALSE, agg |-> FALSE,
          handler |-> FALSE]
    ELSE IF dalcErr # NoErr
    THEN [err |-> <<"error while starting data availability layer client">>
                      \o dalcErr,
          log |-> <<"P2P.Start", "dalc.Start">>,
          p2p |-> "started", dalc |-> "init", loops |-> FALSE, agg |-> FALSE,
          handler |-> FALSE]
    ELSE [err |-> NoErr,
          log |-> <<"P2P.Start", "dalc.Start", "go mempoolReadLoop",
                    "go mempoolPublishLoop">>
                  \o (IF agg THEN <<"go aggregationLoop">> ELSE <<>>)
                  \o <<"P2P.SetTxHandler">>,
          p2p |-> "started", dalc |-> "started", loops |-> TRUE, agg |-> agg,
          handler |-> TRUE]

\* The errors a client's Start, Stop or Close may return: the mock DA client
\* always returns nil.
ClientErrs(name) == {NoErr, <<name>>}

DalcErrs(name) == IF dalcKind = "mock" THEN {NoErr} ELSE ClientErrs(name)

\* service.BaseService.Start calls Node.OnStart.
OnStart ==
    /\ svc = "created"
    /\ \E p2pErr \in ClientErrs("P2P.Start"), dalcErr \in DalcErrs("dalc.Start") :
         LET r == onStart(p2pErr, dalcErr, aggregator) IN
         /\ svc' = IF r.err = NoErr THEN "running" ELSE "startFailed"
         /\ startErr' = r.err
         /\ startLog' = r.log
         /\ p2pState' = r.p2p
         /\ dalcState' = r.dalc
         /\ txHandler' = r.handler
         /\ pcRead' = IF r.loops THEN "select" ELSE pcRead
         /\ pcPub' = IF r.loops THEN "wait" ELSE pcPub
         /\ pcAgg' = IF r.agg THEN "select" ELSE pcAgg
    /\ UNCHANGED <<confVars, stopLog, stopErr, ctxDone, arrived, sending,
                   checked, poolVars, next, gossiped, ticks, store,
                   storeFresh, daBlocks, saves, lastTick>>

\* OnStop that returns at the first error: P2P.Close is not called when
\* dalc.Stop fails.
onStopFirstError(dalcErr, p2pErr) ==
    IF dalcErr # NoErr
    THEN [log |-> <<"dalc.Stop">>, err |-> dalcErr]
    ELSE [log |-> <<"dalc.Stop", "P2P.Close">>, err |-> p2pErr]

\* What Node.OnStop does when dalc.Stop returns dalcErr and P2P.Close returns
\* p2pErr: the calls made, in order, and the error logged.
onStop(dalcErr, p2pErr) ==
    [log |-> <<"dalc.Stop", "P2P.Close">>,
     err |-> multierrAppend(dalcErr, p2pErr)]

\* service.BaseService.Stop calls Node.OnStop.
OnStop ==
    /\ svc = "running"
    /\ \E dalcErr \in DalcErrs("dalc.Stop"), p2pErr \in ClientErrs("P2P.Close") :
         LET r == onStop(dalcErr, p2pErr) IN
         /\ stopLog' = [i \in DOMAIN r.log |->
                            [call |-> r.log[i],
                             err |-> IF r.log[i] = "dalc.Stop" THEN dalcErr ELSE p2pErr]]
         /\ stopErr' = r.err
         /\ dalcState' = IF "dalc.Stop" \in {r.log[i] : i \in DOMAIN r.log}
                         THEN "stopped" ELSE dalcState
         /\ p2pState' = IF "P2P.Close" \in {r.log[i] : i \in DOMAIN r.log}
                        THEN "closed" ELSE p2pState
    /\ svc' = "stopped"
    /\ UNCHANGED <<confVars, startErr, startLog, txHandler, ctxDone,
                   readVars, poolVars, pubVars, aggVars>>


\* ---------------------------------------------------------------- ingestion

\* The p2p client calls the handler OnStart installed, func(tx) {
\* n.incomingTxCh <- tx }: the caller blocks in the send on the unbuffered
\* channel until the ingestion loop receives.
TxHandler(tx) ==
    /\ txHandler
    /\ p2pState = "started"
    /\ tx \notin arrived
    /\ arrived' = arrived \cup {tx}
    /\ sending' = sending \cup {tx}
    /\ UNCHANGED <<confVars, svcVars, ctxDone, pcRead, checked, poolVars,
                   pubVars, aggVars>>

\* The peer a transaction comes from: the From of the p2p.Tx the network
\* hands to the handler.
TxFrom(tx) == IF tx % 2 = 1 THEN "peerA" ELSE "peerB"

\* The *p2p.Tx that travels on incomingTxCh.
P2PTx(tx) == [Data |-> tx, From |-> TxFrom(tx)]

\* The mempool.TxInfo that mempoolReadLoop hands to CheckTx.
txInfo(ptx) == [SenderP2PID |-> ptx.From, Context |-> "ctx"]

\* mempoolReadLoop that returns when CheckTx fails.
readLoopAfterCheckTxFatal(ok) == IF ok THEN "select" ELSE "exit"

\* mempoolReadLoop after CheckTx: an error is logged, and the loop goes
\* round to its select either way.
readLoopAfterCheckTx(ok) == "select"

\* readLoopCheckTx with an accepted transaction put at the front of the list.
readLoopCheckTxFront(pool, tx, ok) == IF ok THEN <<tx>> \o pool ELSE pool

\* What the case  tx := <-n.incomingTxCh  of mempoolReadLoop does with the
\* mempool when CheckTx accepts (ok) or returns an error.
readLoopCheckTx(pool, tx, ok) == IF ok THEN PushBack(pool, tx) ELSE pool

\* mempoolReadLoop, case tx := <-n.incomingTxCh: CheckTx, log an error, loop.
ReadTx(tx, ok) ==
    /\ pcRead = "select"
    /\ tx \in sending
    /\ sending' = sending \ {tx}
    /\ LET ptx == P2PTx(tx)
       IN /\ checked' = Append(checked, [tx |-> ptx.Data, ok |-> ok,
                                         info |-> txInfo(ptx)])
          /\ mempool' = readLoopCheckTx(mempool, ptx.Data, ok)
    /\ admitted' = IF ok THEN Append(admitted, tx) ELSE admitted
    /\ UNCHANGED <<removed, orphans>>
    /\ pcRead' = readLoopAfterCheckTx(ok)
    /\ UNCHANGED <<confVars, svcVars, ctxDone, arrived, pubVars, aggVars>>

\* mempoolReadLoop, case <-ctx.Done(): return.
ReadExit ==
    /\ pcRead = "select"
    /\ ctxDone
    /\ pcRead' = "exit"
    /\ UNCHANGED <<confVars, svcVars, ctxDone, arrived, sending, checked,
                   poolVars, pubVars, aggVars>>

\* ------------------------------------------------------------------- gossip

\* The entries in the list: those pushed and not removed.
LivePool == SubSeq(mempool, removed + 1, Len(mempool))

\* rawMempool.TxsFront() as a position of every entry the list ever held.
LiveFront ==
    IF TxsFront(LivePool) = NilElem THEN NilElem
    ELSE removed + TxsFront(LivePool)

\* mempoolPublishLoop with next == nil: the select takes the case
\* <-rawMempool.TxsWaitChan(), which is ready while the list has an entry.
PubWake ==
    /\ pcPub = "wait"
    /\ Len(LivePool) > 0
    /\ pcPub' = "front"
    /\ UNCHANGED <<confVars, svcVars, ctxDone, readVars, poolVars, next,
                   gossiped, aggVars>>

\* mempoolPublishLoop, in that case: next = TxsFront(); with an entry the
\* loop continues into the send loop, without one it falls through to the
\* send loop and dereferences nil.
PubFront ==
    /\ pcPub = "front"
    /\ next' = LiveFront
    /\ pcPub' = IF LiveFront # NilElem THEN "send" ELSE "panic"
    /\ UNCHANGED <<confVars, svcVars, ctxDone, readVars, poolVars, gossiped, aggVars>>

\* sendLoopFail with the cursor moved on after an error, as after a success:
\* the entry whose send failed is skipped.
sendLoopFailSkips(pool, e) ==
    IF e < Len(pool) THEN [next |-> e + 1, pc |-> "send"]
    ELSE [next |-> e, pc |-> "waitNext"]

\* The cursor after GossipTx of the entry at cursor e returned an error:
\* the error is logged and the send loop continues with the same entry.
sendLoopFail(pool, e) == [next |-> e, pc |-> "retry"]

\* mempoolPublishLoop, send loop, P2P.GossipTx returned an error.
PubSendFail ==
    /\ pcPub = "send"
    /\ next' = sendLoopFail(mempool, next).next
    /\ pcPub' = sendLoopFail(mempool, next).pc
    /\ UNCHANGED <<confVars, svcVars, ctxDone, readVars, poolVars,
                   gossiped, aggVars>>

\* mempoolPublishLoop, send loop: continue, the next iteration of the send
\* loop; the loop does not look at ctx.Done() here.
PubRetry ==
    /\ pcPub = "retry"
    /\ pcPub' = "send"
    /\ UNCHANGED <<confVars, svcVars, ctxDone, readVars, poolVars, next, gossiped, aggVars>>

\* The cursor after a successful GossipTx of the entry at cursor e:
\* nx := next.Next(); break out of the send loop when nx is nil, else move on.
sendLoopAdvance(pool, e) ==
    LET nx == ElemNext(pool, e) IN
    IF nx = NilElem THEN [next |-> e, pc |-> "waitNext"]
    ELSE [next |-> nx, pc |-> "send"]

\* mempoolPublishLoop, send loop, P2P.GossipTx returned nil.
PubSendOK ==
    /\ pcPub = "send"
    /\ gossiped' = Append(gossiped, mempool[next])
    /\ next' = sendLoopAdvance(mempool, next).next
    /\ pcPub' = sendLoopAdvance(mempool, next).pc
    /\ UNCHANGED <<confVars, svcVars, ctxDone, readVars, poolVars, aggVars>>

\* mempoolPublishLoop, case <-next.NextWaitChan(): next = next.Next(); back to
\* the top of the loop, which waits again when next is nil.
PubNext ==
    /\ pcPub = "waitNext"
    /\ ElemNext(mempool, next) # NilElem \/ next <= removed
    /\ next' = ElemNext(mempool, next)
    /\ pcPub' = IF ElemNext(mempool, next) # NilElem THEN "send" ELSE "wait"
    /\ UNCHANGED <<confVars, svcVars, ctxDone, readVars, poolVars, gossiped, aggVars>>

\* mempoolPublishLoop, case <-ctx.Done() of either select: return.
PubExit ==
    /\ pcPub \in {"wait", "waitNext"}
    /\ ctxDone
    /\ pcPub' = "exit"
    /\ UNCHANGED <<confVars, svcVars, ctxDone, readVars, poolVars, next, gossiped, aggVars>>

\* -------------------------------------------------------------- aggregation

\* What BlockStore.SaveBlock may return.
SaveErrs == ClientErrs("store")

\* aggregationLoop that returns when publishBlock fails.
aggLoopAfterPublishFatal(err) == IF err # NoErr THEN "exit" ELSE "select"

\* aggregationLoop after publishBlock: an error is logged, and the loop goes
\* round to its select, where it waits for the next tick.
aggLoopAfterPublish(err) == "select"

\* aggregationLoop, case <-tick.C: publishBlock, log its error, loop.
AggTick(saveErr) ==
    /\ pcAgg = "select"
    /\ ticks < MaxTicks
    /\ LET r == publishBlock(LivePool, store, daBlocks, ticks + 1, saveErr) IN
         /\ store' = r.store
         /\ daBlocks' = r.Blocks
         /\ saves' = IF r.saved
                     THEN Append(saves, [before |-> Height(store),
                                         block |-> LoadBlock(r.store, Height(r.store))])
                     ELSE saves
         /\ lastTick' = [n |-> ticks + 1, store |-> store, Blocks |-> daBlocks,
                         txs |-> r.txs, err |-> r.err, saved |-> r.saved]
         /\ pcAgg' = aggLoopAfterPublish(r.err)
    /\ ticks' = ticks + 1
    /\ UNCHANGED <<confVars, svcVars, ctxDone, readVars, poolVars, pubVars,
                   storeFresh>>

\* aggregationLoop, case <-ctx.Done(): return.
AggExit ==
    /\ pcAgg = "select"
    /\ ctxDone
    /\ pcAgg' = "exit"
    /\ UNCHANGED <<confVars, svcVars, ctxDone, readVars, poolVars, pubVars,
                   ticks, store, storeFresh, daBlocks, saves, lastTick>>

\* ------------------------------------------------------------ specification

ReadStep == (\E tx \in Txs, ok \in BOOLEAN : ReadTx(tx, ok)) \/ ReadExit

PubStep == PubWake \/ PubFront \/ PubSendFail \/ PubRetry \/ PubSendOK \/ PubNext \/ PubExit

AggStep == (\E saveErr \in SaveErrs : AggTick(saveErr)) \/ AggExit

Next ==
    \/ SeedBlockStore
    \/ CancelCtx
    \/ OnStart
    \/ OnStop
    \/ \E tx \in Txs : TxHandler(tx)
    \/ \E tx \in Txs, ok \in BOOLEAN : ReadTx(tx, ok)
    \/ ReadExit
    \/ PubWake
    \/ PubFront
    \/ PubSendFail
    \/ PubRetry
    \/ PubSendOK
    \/ PubNext
    \/ PubExit
    \/ \E saveErr \in SaveErrs : AggTick(saveErr)
    \/ AggExit

Spec == Init /\ [][Next]_vars

\* Each loop is a goroutine of its own and the Go scheduler runs every
\* goroutine that can take a step.
LiveSpec ==
    Spec /\ WF_vars(ReadStep) /\ WF_vars(PubStep) /\ WF_vars(AggStep)

\* LiveSpec for a network on which a GossipTx that is tried again and again
\* eventually succeeds.
GossipFairSpec == LiveSpec /\ SF_vars(PubSendOK)

\* A holder of the exported field Node.Mempool removes the front entry of
\* the list, as Mempool.Update does for the transactions of a committed
\* block.  The entry's NextWaitChan is closed; an entry that is the tail
\* when removed never gets a successor.
MempoolUpdate ==
    /\ svc = "running"
    /\ Len(LivePool) > 0
    /\ removed' = removed + 1
    /\ orphans' = IF removed + 1 = Len(mempool)
                  THEN orphans \cup {removed + 1} ELSE orphans
    /\ UNCHANGED <<confVars, svcVars, ctxDone, readVars, mempool, admitted,
                   pubVars, aggVars>>

RemovalNext == Next \/ MempoolUpdate

\* The node with removals from its mempool.
RemovalSpec == Init /\ [][RemovalNext]_vars


\* ------------------------------------------------------------ construction

\* Number of validators a genesis document lists at most.
MaxVals == 2

\* The keys of the genesis validators; a validator's address orders as its key.
PubKeys == 1..MaxVals

\* Voting powers of a genesis validator; ValidateAndComplete refuses power 0.
Powers == 0..2

\* A panic with its message; what a call gives is a panic or a value.
Panic(msg) == [panic |-> msg]

IsPanic(v) == "panic" \in DOMAIN v

RECURSIVE SeqSum(_)
SeqSum(s) == IF s = <<>> THEN 0 ELSE Head(s) + SeqSum(Tail(s))

\* Go's integer division, which truncates toward zero.
GoDiv(a, b) == IF a >= 0 THEN a \div b ELSE -((-a) \div b)

\* types.NewValidator(pubKey, votingPower)
NewValidator(pubKey, power) ==
    [PubKey |-> pubKey, VotingPower |-> power, ProposerPriority |-> 0]

\* sort.Sort(ValidatorsByVotingPower(...)): power descending, address ascending.
ValBefore(a, b) ==
    \/ a.VotingPower > b.VotingPower
    \/ a.VotingPower = b.VotingPower /\ a.PubKey < b.PubKey

RECURSIVE SortVals(_)
SortVals(vs) ==
    IF vs = <<>> THEN <<>>
    ELSE LET i == CHOOSE i \in DOMAIN vs :
                     \A j \in DOMAIN vs : j = i \/ ValBefore(vs[i], vs[j])
         IN <<vs[i]>> \o SortVals([k \in 1..(Len(vs) - 1) |->
                                      IF k < i THEN vs[k] ELSE vs[k + 1]])

TotalVotingPower(vs) == SeqSum([i \in DOMAIN vs |-> vs[i].VotingPower])

\* ValidatorSet.RescalePriorities(diffMax)
RescalePriorities(vs, diffMax) ==
    LET prios == {vs[i].ProposerPriority : i \in DOMAIN vs}
        max == CHOOSE p \in prios : \A q \in prios : q <= p
        min == CHOOSE p \in prios : \A q \in prios : p <= q
        diff == max - min
        ratio == (diff + diffMax - 1) \div diffMax
    IN IF diff > diffMax
       THEN [i \in DOMAIN vs |->
               [vs[i] EXCEPT !.ProposerPriority = GoDiv(@, ratio)]]
       ELSE vs

\* ValidatorSet.shiftByAvgProposerPriority()
shiftByAvgProposerPriority(vs) ==
    LET sum == SeqSum([i \in DOMAIN vs |-> vs[i].ProposerPriority])
        avg == sum \div Len(vs)
    IN [i \in DOMAIN vs |-> [vs[i] EXCEPT !.ProposerPriority = @ - avg]]

\* ValidatorSet.incrementProposerPriority(): one round.  Every validator
\* gains its voting power, the one with the most priority (the lower address
\* on a tie) is the proposer and pays the total voting power.
incrementProposerPriority(vs) ==
    LET added == [i \in DOMAIN vs |->
                    [vs[i] EXCEPT !.ProposerPriority = @ + vs[i].VotingPower]]
        most == CHOOSE i \in DOMAIN added : \A j \in DOMAIN added :
                    \/ j = i
                    \/ added[i].ProposerPriority > added[j].ProposerPriority
                    \/ /\ added[i].ProposerPriority = added[j].ProposerPriority
                       /\ added[i].PubKey < added[j].PubKey
        paid == [added EXCEPT ![most].ProposerPriority =
                                  @ - TotalVotingPower(vs)]
    IN [Validators |-> paid, Proposer |-> paid[most].PubKey]

RECURSIVE IncrementRounds(_, _)
IncrementRounds(set, times) ==
    IF times = 0 THEN set
    ELSE IncrementRounds(incrementProposerPriority(set.Validators), times - 1)

\* ValidatorSet.IncrementProposerPriority(times), which panics on a set
\* without validators.
IncrementProposerPriority(set, times) ==
    IF set.Validators = <<>> THEN Panic("empty validator set")
    ELSE IF times <= 0
    THEN Panic("Cannot call IncrementProposerPriority with non-positive times")
    ELSE IncrementRounds(
             [set EXCEPT !.Validators = shiftByAvgProposerPriority(
                 RescalePriorities(@, 2 * TotalVotingPower(@)))],
             times)

\* The set without validators and without proposer.
EmptyValidatorSet == [Validators |-> <<>>, Proposer |-> 0]

\* types.NewValidatorSet(valz): nil and the empty slice both give the set
\* without validators; otherwise the validators in order of voting power,
\* advanced by one round.
NewValidatorSet(valz) ==
    IF Len(valz) = 0 THEN EmptyValidatorSet
    ELSE IncrementProposerPriority(
             [Validators |-> SortVals(valz), Proposer |-> 0], 1)

\* ValidatorSet.CopyIncrementProposerPriority(times)
CopyIncrementProposerPriority(set, times) ==
    IncrementProposerPriority(set, times)

\* GenesisDoc.ValidateAndComplete(): a chain id is required, the initial
\* height is not negative and 0 means 1, no validator has voting power 0.
ValidateAndComplete(genDoc) ==
    IF genDoc.ChainID = ""
    THEN [doc |-> genDoc, err |-> <<"genesis doc must include non-empty chain_id">>]
    ELSE IF genDoc.InitialHeight < 0
    THEN [doc |-> genDoc, err |-> <<"initial_height cannot be negative">>]
    ELSE IF \E i \in DOMAIN genDoc.Validators :
                genDoc.Validators[i].Power = 0
    THEN [doc |-> genDoc,
          err |-> <<"the genesis file cannot contain validators with no voting power">>]
    ELSE [doc |-> [genDoc EXCEPT !.InitialHeight = IF @ = 0 THEN 1 ELSE @],
          err |-> NoErr]

\* State{}.
ZeroState ==
    [ChainID |-> "", InitialHeight |-> 0, LastBlockHeight |-> 0,
     NextValidators |-> EmptyValidatorSet, Validators |-> EmptyValidatorSet,
     LastValidators |-> EmptyValidatorSet, LastHeightValidatorsChanged |-> 0]

\* NewFromGenesisDoc: the two validator sets.  A nil genDoc.Validators gives
\* two sets without validators; any other list, the empty one included, is
\* converted and the next set is the set advanced by one round.
genesisValidatorSets(doc) ==
    IF doc.ValidatorsNil
    THEN [validatorSet |-> NewValidatorSet(<<>>),
          nextValidatorSet |-> NewValidatorSet(<<>>)]
    ELSE LET validators == [i \in DOMAIN doc.Validators |->
                 NewValidator(doc.Validators[i].PubKey, doc.Validators[i].Power)]
         IN [validatorSet |-> NewValidatorSet(validators),
             nextValidatorSet |->
                 CopyIncrementProposerPriority(NewValidatorSet(validators), 1)]

\* NewFromGenesisDoc(genDoc)
NewFromGenesisDoc(genDoc) ==
    LET vc == ValidateAndComplete(genDoc)
        doc == vc.doc
        sets == genesisValidatorSets(doc)
    IN IF vc.err # NoErr
       THEN [kind |-> "return", state |-> ZeroState,
             err |-> <<"error in genesis doc: ">> \o vc.err]
       ELSE IF IsPanic(sets.nextValidatorSet)
       THEN [kind |-> "panic", msg |-> sets.nextValidatorSet.panic]
       ELSE [kind |-> "return",
             state |-> [ChainID |-> doc.ChainID,
                        InitialHeight |-> doc.InitialHeight,
                        LastBlockHeight |-> 0,
                        NextValidators |-> sets.nextValidatorSet,
                        Validators |-> sets.validatorSet,
                        LastValidators |-> NewValidatorSet(<<>>),
                        LastHeightValidatorsChanged |-> doc.InitialHeight],
             err |-> NoErr]

\* The genesis documents explored: the validator list absent (nil), or
\* present with up to MaxVals validators of distinct keys.
RECURSIVE SeqsUpTo(_, _)
SeqsUpTo(S, n) ==
    IF n = 0 THEN {<<>>}
    ELSE LET shorter == SeqsUpTo(S, n - 1)
         IN shorter \cup {Append(s, x) : s \in shorter, x \in S}

GenesisValidatorLists ==
    {vs \in SeqsUpTo([PubKey : PubKeys, Power : Powers], MaxVals) :
        \A i, j \in DOMAIN vs : i # j => vs[i].PubKey # vs[j].PubKey}

GenesisDocs ==
    {[ChainID |-> c, InitialHeight |-> h, ValidatorsNil |-> FALSE,
      Validators |-> vs] :
        c \in {"", "test-chain"}, h \in -1..1, vs \in GenesisValidatorLists}
    \cup
    {[ChainID |-> c, InitialHeight |-> h, ValidatorsNil |-> TRUE,
      Validators |-> <<>>] : c \in {"", "test-chain"}, h \in -1..1}

\* A caller builds the State of a chain from its genesis document.
CallNewFromGenesisDoc ==
    /\ call.fn = "NewFromGenesisDoc"
    /\ ret = NoRet
    /\ ret' = NewFromGenesisDoc(call.genDoc)
    /\ UNCHANGED <<aggregator, dalcKind, call, svcVars, ctxDone, readVars,
                   poolVars, pubVars, aggVars>>

\* Number of lines of a DA configuration document.
MaxConfigLines == 2

\* fmt.Errorf(format + "%v", arg): the message, as its pieces; an empty
\* argument adds nothing to the message.
Errorf(format, arg) == IF arg = "" THEN <<format>> ELSE <<format, arg>>

\* lazyledger.Config{}: every field at its zero value.
ZeroConfig == [NamespaceID |-> <<>>, Backend |-> "", From |-> ""]

\* A line  key = value  of a configuration document; a value is a string or
\* a list of bytes.
ConfigLine(key, str, bytes) == [key |-> key, str |-> str, bytes |-> bytes]

\* Decoding of a configuration document into a Config: each line sets the
\* field it names, a later line wins, a line that names no field is skipped
\* and a line that is not  key = value  fails the decoding.
RECURSIVE Unmarshal(_, _)
Unmarshal(lines, config) ==
    IF lines = <<>> THEN [config |-> config, err |-> NoErr]
    ELSE LET l == Head(lines)
         IN IF l.key = "NamespaceID"
            THEN Unmarshal(Tail(lines), [config EXCEPT !.NamespaceID = l.bytes])
            ELSE IF l.key = "Backend"
            THEN Unmarshal(Tail(lines), [config EXCEPT !.Backend = l.str])
            ELSE IF l.key = "From"
            THEN Unmarshal(Tail(lines), [config EXCEPT !.From = l.str])
            ELSE IF l.key = ""
            THEN [config |-> config, err |-> <<"toml: expected key">>]
            ELSE Unmarshal(Tail(lines), config)

\* The keyring backends that exist.
KeyringBackends == {"test", "file", "os", "kwallet", "pass", "memory"}

\* keyring.New(..., backend, ...)
keyringNew(backend) ==
    IF backend \in KeyringBackends
    THEN [keyring |-> backend, err |-> NoErr]
    ELSE [keyring |-> "", err |-> Errorf("unknown keyring backend ", backend)]

\* LazyLedger.Init that takes the test keyring when none is configured.
lazyLedgerInitDefaultBackend(config) ==
    LET parsed == Unmarshal(config, ZeroConfig)
        kr == keyringNew(IF parsed.config.Backend = "" THEN "test"
                         ELSE parsed.config.Backend)
    IN IF parsed.err # NoErr
       THEN [config |-> parsed.config, keyring |-> "", err |-> parsed.err]
       ELSE [config |-> parsed.config, keyring |-> kr.keyring, err |-> kr.err]

\* LazyLedger.Init(config, logger): decode the configuration into ll.config,
\* then open the keyring the configuration names.
lazyLedgerInit(config) ==
    LET parsed == Unmarshal(config, ZeroConfig)
        kr == keyringNew(parsed.config.Backend)
    IN IF parsed.err # NoErr
       THEN [config |-> parsed.config, keyring |-> "", err |-> parsed.err]
       ELSE [config |-> parsed.config, keyring |-> kr.keyring, err |-> kr.err]

\* The configuration lines explored.
ConfigLines ==
    {ConfigLine("Backend", b, <<>>) : b \in {"test", "memory", "bogus", ""}}
    \cup {ConfigLine("NamespaceID", "", n) : n \in {<<3, 2, 1>>, <<>>}}
    \cup {ConfigLine("From", "test", <<>>), ConfigLine("", "", <<>>)}

DAConfigs == SeqsUpTo(ConfigLines, MaxConfigLines)

\* NamespaceID = [3, 2, 1]\nBackend = 'test'
NamespaceConfig ==
    <<ConfigLine("NamespaceID", "", <<3, 2, 1>>),
      ConfigLine("Backend", "test", <<>>)>>

\* A caller initialises a LazyLedger client.
CallLazyLedgerInit ==
    /\ call.fn = "LazyLedger.Init"
    /\ ret = NoRet
    /\ ret' = [kind |-> "return"] @@ lazyLedgerInit(call.config)
    /\ UNCHANGED <<aggregator, dalcKind, call, svcVars, ctxDone, readVars,
                   poolVars, pubVars, aggVars>>

\* The nil *Node and the nil da.DataAvailabilityLayerClient.
NilNode == [nil |-> TRUE]

NilClient == ""

\* The names under which the backends register themselves.
RegisteredClients == {"mock", "lazyledger"}

\* registry.GetClient(name): a fresh client of the backend registered under
\* the name, nil when there is none.
GetClient(name) == IF name \in RegisteredClients THEN name ELSE NilClient

\* dalc.Init(config, logger) of the client GetClient gave.
dalcInit(dalc, config) ==
    IF dalc = "mock" THEN NoErr ELSE lazyLedgerInit(config).err

\* The *Node that NewNode builds.
NodeOf(conf, dalc) ==
    [nil |-> FALSE, conf |-> conf, dalc |-> dalc, Mempool |-> <<>>,
     BlockStore |-> NewBlockStore]

\* NewNode that calls Init on whatever GetClient returned.
newNodeNoNilCheck(conf, proxyErr, busErr, p2pErr) ==
    LET dalc == GetClient(conf.DALayer)
        initErr == dalcInit(dalc, conf.DAConfig)
        fail(err, calls, ie) == [kind |-> "return", node |-> NilNode, err |-> err,
                                 dalcCalls |-> calls, initErr |-> ie]
    IN IF proxyErr # NoErr
       THEN fail(<<"error starting proxy app connections: ">> \o proxyErr,
                 <<>>, NoErr)
       ELSE IF busErr # NoErr THEN fail(busErr, <<>>, NoErr)
       ELSE IF p2pErr # NoErr THEN fail(p2pErr, <<>>, NoErr)
       ELSE IF dalc = NilClient
       THEN [kind |-> "panic", node |-> NilNode,
             err |-> <<"invalid memory address or nil pointer dereference">>,
             dalcCalls |-> <<"Init">>, initErr |-> NoErr]
       ELSE IF initErr # NoErr
       THEN fail(<<"data availability layer client initialization error: ">>
                     \o initErr, <<"Init">>, initErr)
       ELSE [kind |-> "return", node |-> NodeOf(conf, dalc), err |-> NoErr,
             dalcCalls |-> <<"Init">>, initErr |-> NoErr]

\* NewNode(ctx, conf, nodeKey, clientCreator, genesis, logger); proxyErr,
\* busErr and p2pErr are what proxyApp.Start, eventBus.Start and
\* p2p.NewClient return.  dalcCalls are the calls made on the DA client and
\* initErr is what its Init returned.
newNode(conf, proxyErr, busErr, p2pErr) ==
    LET dalc == GetClient(conf.DALayer)
        initErr == dalcInit(dalc, conf.DAConfig)
        fail(err, calls, ie) == [kind |-> "return", node |-> NilNode, err |-> err,
                                 dalcCalls |-> calls, initErr |-> ie]
    IN IF proxyErr # NoErr
       THEN fail(<<"error starting proxy app connections: ">> \o proxyErr,
                 <<>>, NoErr)
       ELSE IF busErr # NoErr THEN fail(busErr, <<>>, NoErr)
       ELSE IF p2pErr # NoErr THEN fail(p2pErr, <<>>, NoErr)
       ELSE IF dalc = NilClient
       THEN fail(<<"couldn't get data availability client named '",
                   conf.DALayer, "'">>, <<>>, NoErr)
       ELSE IF initErr # NoErr
       THEN fail(<<"data availability layer client initialization error: ">>
                     \o initErr, <<"Init">>, initErr)
       ELSE [kind |-> "return", node |-> NodeOf(conf, dalc), err |-> NoErr,
             dalcCalls |-> <<"Init">>, initErr |-> NoErr]

\* The node configurations explored.
NodeConfigs ==
    [DALayer : {"mock", "lazyledger", "celestia", ""}, DAConfig : DAConfigs,
     Aggregator : BOOLEAN]

\* A caller constructs a node.
CallNewNode ==
    /\ call.fn = "NewNode"
    /\ ret = NoRet
    /\ ret' = newNode(call.conf, call.proxyErr, call.busErr, call.p2pErr)
    /\ UNCHANGED <<aggregator, dalcKind, call, svcVars, ctxDone, readVars,
                   poolVars, pubVars, aggVars>>

\* The calls of constructors and initialisers that are explored.
SetupInit ==
    /\ NodeInit
    /\ ~aggregator
    /\ dalcKind = "mock"
    /\ ret = NoRet
    /\ \/ \E d \in GenesisDocs : call = [fn |-> "NewFromGenesisDoc", genDoc |-> d]
       \/ \E c \in DAConfigs : call = [fn |-> "LazyLedger.Init", config |-> c]
       \/ \E c \in NodeConfigs, pe \in ClientErrs("proxy"),
             be \in ClientErrs("eventbus"), ne \in ClientErrs("p2p") :
            call = [fn |-> "NewNode", conf |-> c, proxyErr |-> pe,
                    busErr |-> be, p2pErr |-> ne]

SetupNext == CallNewFromGenesisDoc \/ CallLazyLedgerInit \/ CallNewNode

\* Constructors and initialisers, each applied to each of its inputs.
SetupSpec == SetupInit /\ [][SetupNext]_vars


\* ------------------------------------------------------------------ claims

Range(seq) == {seq[i] : i \in DOMAIN seq}

IsPrefix(a, b) == Len(a) <= Len(b) /\ \A i \in DOMAIN a : a[i] = b[i]

\* The blocks the aggregation loop saved, in save order.
SavedBlocks == [i \in DOMAIN saves |-> saves[i].block]

\* C1: with a mock DA client and the Block Store as NewNode creates it, a
\* tick that finds exactly one admitted transaction saves a block: Height()
\* is one more than before the tick and the block at that height holds
\* exactly that transaction.
C1_EndToEndProduction ==
    (/\ dalcKind = "mock"
     /\ storeFresh
     /\ lastTick.n > 0
     /\ Len(admitted) = 1
     /\ lastTick.txs = admitted)
    => /\ Height(store) = Height(lastTick.store) + 1
       /\ HasBlock(store, Height(store))
       /\ LoadBlock(store, Height(store)).Data.Txs = admitted

\* The case of C1 on the code: the tick reaped the one admitted transaction,
\* makeBlock could not load the block at height 0, and nothing was saved.
C1_Witness ==
    /\ dalcKind = "mock"
    /\ storeFresh
    /\ lastTick.n = 1
    /\ Len(admitted) = 1
    /\ lastTick.txs = admitted
    /\ lastTick.err # NoErr
    /\ Height(store) = 0

\* C2: with the mock DA client, its Blocks list holds every block the
\* aggregation loop saved, in save order.
C2_PersistThenSubmit ==
    dalcKind = "mock" => daBlocks = SavedBlocks

\* The case of C2 on the code: a block was saved and the mock DA client
\* was handed nothing.
C2_Witness ==
    /\ dalcKind = "mock"
    /\ Len(saves) = 1
    /\ lastTick.saved
    /\ daBlocks = <<>>

\* C3: a tick whose reap is empty builds, saves and submits nothing: the
\* Block Store, its Height() and the DA client's Blocks are what they were
\* before the tick.
C3_IdleTick ==
    (lastTick.n > 0 /\ lastTick.txs = <<>>)
    => /\ store = lastTick.store
       /\ Height(store) = Height(lastTick.store)
       /\ daBlocks = lastTick.Blocks
       /\ ~lastTick.saved

\* The case of C3: an empty reap on a tick at which a block could have been
\* built, the block at Height() being in the store.
C3_Witness ==
    /\ lastTick.n > 0
    /\ lastTick.txs = <<>>
    /\ mempool = <<>>
    /\ HasBlock(store, Height(store))


\* No loop of the node is running: each has returned or was never launched.
AllLoopsExited ==
    /\ pcRead \in {"idle", "exit"}
    /\ pcPub \in {"idle", "exit", "panic"}
    /\ pcAgg \in {"idle", "exit"}

\* C4: once the context is cancelled, the ingestion loop, the gossip loop
\* and the aggregation loop all eventually exit, whatever GossipTx returns.
C4_CancellationLiveness == ctxDone ~> AllLoopsExited

\* The part of C4 the code keeps: after cancellation the ingestion loop and
\* the aggregation loop eventually exit.
C4_ReadAndAggExit ==
    ctxDone ~> (pcRead \in {"idle", "exit"} /\ pcAgg \in {"idle", "exit"})

\* The case of C4 on the code: the context is cancelled while the gossip loop
\* is in its send loop after a failed GossipTx, where it does not look at
\* ctx.Done().
C4_Witness ==
    /\ ctxDone
    /\ pcPub = "retry"
    /\ pcRead = "exit"
    /\ pcAgg \in {"idle", "exit"}

\* C5: a failed GossipTx leaves the cursor where it is and the same
\* transaction is sent again; no admitted transaction is skipped; and on a
\* network where retried sends eventually succeed, every admitted
\* transaction is eventually gossiped, unless the context is cancelled.
C5_GossipAtLeastOnce ==
    /\ [][(pcPub = "send" /\ gossiped' = gossiped /\ pcPub' # pcPub)
            => (pcPub' = "retry" /\ next' = next)]_vars
    /\ [][(pcPub = "retry" /\ pcPub' # pcPub)
            => (pcPub' = "send" /\ next' = next /\ gossiped' = gossiped)]_vars
    /\ [](IsPrefix(gossiped, admitted))
    /\ \A tx \in Txs :
         (tx \in Range(admitted)) ~> (tx \in Range(gossiped) \/ ctxDone)

\* The case of C5: the second admitted transaction is being retried after a
\* failed send, the cursor still on it, the first one already gossiped.
C5_Witness ==
    /\ pcPub = "retry"
    /\ Len(admitted) = 2
    /\ next = 2
    /\ gossiped = <<admitted[1]>>
    /\ ~ctxDone

\* C6: every block the aggregation loop saved has Header.Height equal to
\* Height() before the save plus 1 and Header.LastHeaderHash equal to the
\* digest of the Header of the stored block one below it; the saved heights
\* are contiguous, each save raising Height() by one, and Height() is the
\* height of the last save.
C6_ChainLinkage ==
    /\ \A i \in DOMAIN saves :
         LET b == saves[i].block
             H == b.Header.Height
         IN /\ H = saves[i].before + 1
            /\ HasBlock(store, H)
            /\ LoadBlock(store, H) = b
            /\ HasBlock(store, H - 1)
            /\ b.Header.LastHeaderHash = HashHeader(LoadBlock(store, H - 1).Header)
    /\ \A i \in DOMAIN saves :
         i > 1 => saves[i].before = saves[i - 1].before + 1
    /\ saves # <<>> => Height(store) = saves[Len(saves)].before + 1
    /\ Height(store) >= Height(lastTick.store)

\* The case of C6: the aggregation loop has saved two blocks, the second on
\* top of the first.
C6_Witness ==
    /\ Len(saves) = 2
    /\ saves[2].block.Header.LastHeaderHash = HashHeader(saves[1].block.Header)
    /\ saves[2].block.Header.LastHeaderHash # saves[1].block.Header.LastHeaderHash

\* C7: after an OnStart that failed, nothing of the node is running: no
\* loop launched, no tx handler installed, neither client left started.
C7_NoPartialStart ==
    svc = "startFailed"
    => /\ startErr # NoErr
       /\ pcRead = "idle" /\ pcPub = "idle" /\ pcAgg = "idle"
       /\ ~txHandler
       /\ p2pState # "started"
       /\ dalcState # "started"

\* The case of C7 on the code: dalc.Start failed after P2P.Start succeeded,
\* and the p2p client is still started.
C7_Witness ==
    /\ svc = "startFailed"
    /\ startLog = <<"P2P.Start", "dalc.Start">>
    /\ p2pState = "started"

\* C8: OnStop calls dalc.Stop and then P2P.Close whatever dalc.Stop returns,
\* and the error it logs holds the error of each call that returned one.
C8_StopAggregatesErrors ==
    svc = "stopped"
    => /\ [i \in DOMAIN stopLog |-> stopLog[i].call] = <<"dalc.Stop", "P2P.Close">>
       /\ dalcState = "stopped"
       /\ p2pState = "closed"
       /\ \A i \in DOMAIN stopLog : Range(stopLog[i].err) \subseteq Range(stopErr)
       /\ Range(stopErr) \subseteq UNION {Range(stopLog[i].err) : i \in DOMAIN stopLog}

\* The case of C8: dalc.Stop and P2P.Close both returned an error.
C8_Witness ==
    /\ svc = "stopped"
    /\ Len(stopLog) = 2
    /\ stopLog[1].err # NoErr
    /\ stopLog[2].err # NoErr
    /\ Len(stopErr) = 2

\* C9 is about a DA submission that returns a failure; the aggregation loop
\* hands the mock DA client no block at all.
NoDaSubmission == daBlocks = <<>>

\* C10: the transactions the gossip loop sent, and the transactions of every
\* reaped batch and of every saved block, are in the order in which CheckTx
\* admitted them.
C10_FifoAcrossReaders ==
    /\ IsPrefix(gossiped, admitted)
    /\ IsPrefix(lastTick.txs, admitted)
    /\ \A i \in DOMAIN saves : IsPrefix(saves[i].block.Data.Txs, admitted)
    /\ pcPub \in {"send", "retry"} => (next \in DOMAIN admitted /\ mempool[next] = admitted[next])

\* The case of C10: two transactions were admitted, the larger-numbered one
\* first, both were gossiped and both are in a saved block.
C10_Witness ==
    /\ admitted = <<2, 1>>
    /\ gossiped = admitted
    /\ \E i \in DOMAIN saves : saves[i].block.Data.Txs = admitted


\* C11: a transaction reaped into a block that was saved is released by the
\* mempool: it is no longer in the pool and no later block holds it.
C11_ReapedTxReleased ==
    /\ \A i \in DOMAIN saves :
         Range(saves[i].block.Data.Txs) \cap Range(mempool) = {}
    /\ \A i, j \in DOMAIN saves :
         i < j => Range(saves[i].block.Data.Txs)
                    \cap Range(saves[j].block.Data.Txs) = {}

\* The case of C11 on the code: two consecutive ticks saved two blocks with
\* the same transaction, which is still in the mempool.
C11_Witness ==
    /\ Len(saves) = 2
    /\ saves[1].block.Data.Txs = saves[2].block.Data.Txs
    /\ Range(saves[2].block.Data.Txs) \subseteq Range(mempool)
    /\ saves[2].block.Header.Height = saves[1].block.Header.Height + 1

\* C12: a call of the tx handler never blocks for good: while a call is
\* blocked in its send on incomingTxCh, the ingestion loop, the only
\* receiver of that channel, has not returned.
C12_HandlerReturns ==
    sending # {} => pcRead = "select"

\* C12 as a property of behaviours: every handler call that is blocked in
\* its send eventually returns.
C12_HandlerEventuallyReturns ==
    \A tx \in Txs : (tx \in sending) ~> (tx \notin sending)

\* The case of C12 on the code: the context was cancelled, the ingestion
\* loop returned, and a handler call is blocked in its send with no receiver.
C12_Witness ==
    /\ ctxDone
    /\ pcRead = "exit"
    /\ sending # {}
    /\ txHandler

\* The call of NewFromGenesisDoc on a valid genesis document has come back or
\* has panicked.
GenesisCallDone ==
    /\ call.fn = "NewFromGenesisDoc"
    /\ ret # NoRet
    /\ ValidateAndComplete(call.genDoc).err = NoErr

\* C13: NewFromGenesisDoc on a valid genesis document returns without failure;
\* with no validators, the list absent or empty, Validators and NextValidators
\* are both empty; with N > 0 validators Validators has N of them and
\* NextValidators is that set advanced by one round of proposer priority.
C13_GenesisValidatorSets ==
    GenesisCallDone =>
        /\ ret.kind = "return"
        /\ ret.err = NoErr
        /\ LET n == Len(call.genDoc.Validators)
               vals == ret.state.Validators
               nextVals == ret.state.NextValidators
           IN IF n = 0
              THEN vals.Validators = <<>> /\ nextVals.Validators = <<>>
              ELSE /\ Len(vals.Validators) = n
                   /\ nextVals = incrementProposerPriority(vals.Validators)

\* The part of C13 that the code meets: the validator list absent, or with
\* N > 0 validators.
C13_AbsentOrNonEmpty ==
    (GenesisCallDone
       /\ (call.genDoc.ValidatorsNil \/ call.genDoc.Validators # <<>>))
        => /\ ret.kind = "return"
           /\ ret.err = NoErr
           /\ Len(ret.state.Validators.Validators) = Len(call.genDoc.Validators)
           /\ Len(ret.state.NextValidators.Validators)
                = Len(call.genDoc.Validators)
           /\ call.genDoc.Validators # <<>> =>
                ret.state.NextValidators
                  = incrementProposerPriority(ret.state.Validators.Validators)

C13_Witness ==
    /\ GenesisCallDone
    /\ ~call.genDoc.ValidatorsNil
    /\ call.genDoc.Validators = <<>>
    /\ ret.kind = "panic"

\* The backend a configuration document names: the value of its last
\* Backend line, nothing when it has none.
BackendNamed(config) ==
    LET ls == SelectSeq(config, LAMBDA l : l.key = "Backend")
    IN IF ls = <<>> THEN "" ELSE ls[Len(ls)].str

\* C14: LazyLedger.Init fails with "unknown keyring backend " on an empty
\* configuration, never succeeds when the configuration names no keyring
\* backend or one that does not exist, and on NamespaceID = [3, 2, 1],
\* Backend = 'test' succeeds and stores {NamespaceID: 0x030201, Backend: "test"}.
C14_LazyLedgerInitConfig ==
    (call.fn = "LazyLedger.Init" /\ ret # NoRet) =>
        /\ call.config = <<>> => ret.err = <<"unknown keyring backend ">>
        /\ BackendNamed(call.config) \notin KeyringBackends => ret.err # NoErr
        /\ call.config = NamespaceConfig =>
             /\ ret.err = NoErr
             /\ ret.config = [NamespaceID |-> <<3, 2, 1>>, Backend |-> "test",
                              From |-> ""]

C14_Witness ==
    /\ call.fn = "LazyLedger.Init"
    /\ call.config = NamespaceConfig
    /\ ret.kind = "return"
    /\ ret.err = NoErr
    /\ ret.keyring = "test"

\* C15: NewNode with a DA backend name the registry does not know returns an
\* error and no Node and makes no call on any DA client; when the DA client's
\* Init returns an error, NewNode returns an error and no Node.
C15_NewNodeRejectsBadDalc ==
    (call.fn = "NewNode" /\ ret # NoRet) =>
        /\ call.conf.DALayer \notin RegisteredClients =>
             /\ ret.kind = "return"
             /\ ret.err # NoErr
             /\ ret.node = NilNode
             /\ ret.dalcCalls = <<>>
        /\ ret.initErr # NoErr =>
             /\ ret.kind = "return"
             /\ ret.err # NoErr
             /\ ret.node = NilNode

C15_Witness ==
    /\ call.fn = "NewNode"
    /\ call.conf.DALayer = "celestia"
    /\ call.proxyErr = NoErr /\ call.busErr = NoErr /\ call.p2pErr = NoErr
    /\ ret.kind = "return"
    /\ ret.err = <<"couldn't get data availability client named '", "celestia", "'">>
    /\ ret.node = NilNode

\* The transactions that were received from the channel.
Received == arrived \ sending

\* C16: every transaction received on the channel leads to exactly one CheckTx
\* call, which carries the identity of the peer it came from; a CheckTx error
\* does not end the ingestion loop, which exits only on cancellation.
C16_IngestionResilience ==
    /\ {checked[i].tx : i \in DOMAIN checked} = Received
    /\ Len(checked) = Cardinality(Received)
    /\ \A i \in DOMAIN checked :
         checked[i].info.SenderP2PID = TxFrom(checked[i].tx)
    /\ pcRead = "exit" => ctxDone
    /\ (pcRead = "select" /\ sending # {}) =>
         \A tx \in sending : ENABLED ReadTx(tx, TRUE)

C16_Witness ==
    /\ Len(checked) = 2
    /\ ~checked[1].ok
    /\ checked[2].ok
    /\ checked[1].info.SenderP2PID # checked[2].info.SenderP2PID
    /\ pcRead = "select"
    /\ ~ctxDone

\* A tick on which makeBlock or SaveBlock failed has just been taken.
TickFailed == ticks' = ticks + 1 /\ lastTick'.err # NoErr

\* C17: a tick on which block construction or SaveBlock fails saves no block
\* and submits nothing, leaves the mempool and Height() as they were, makes
\* one attempt only, and leaves the aggregation loop at its select, where the
\* next tick makes the next attempt.
C17_AbandonedTick ==
    /\ [][TickFailed =>
            /\ store' = store
            /\ Height(store') = Height(store)
            /\ saves' = saves
            /\ daBlocks' = daBlocks
            /\ mempool' = mempool
            /\ lastTick'.n = ticks'
            /\ ~lastTick'.saved
            /\ pcAgg' = "select"]_vars
    /\ []((lastTick.err # NoErr /\ pcAgg # "exit" /\ ticks < MaxTicks)
            => \A saveErr \in SaveErrs : ENABLED AggTick(saveErr))

C17_Witness ==
    /\ lastTick.err = <<"store">>
    /\ lastTick.n = 2
    /\ lastTick.txs # <<>>
    /\ Len(saves) = 1
    /\ saves[1].block.Header.Time = 1
    /\ Height(store) = Height(lastTick.store)
    /\ pcAgg = "select"

\* Start has succeeded.
Started == startLog # <<>> /\ startErr = NoErr

\* C18 as stated: a successful Start starts the network client, starts the DA
\* client, launches the ingestion, gossip and aggregation loops and then
\* installs the tx handler; after it all three loops have been launched and
\* no transaction is on the channel before the ingestion loop is launched.
C18_ThreeLoopsLaunched ==
    /\ Started =>
         /\ startLog = <<"P2P.Start", "dalc.Start", "go mempoolReadLoop",
                         "go mempoolPublishLoop", "go aggregationLoop",
                         "P2P.SetTxHandler">>
         /\ pcRead # "idle" /\ pcPub # "idle" /\ pcAgg # "idle"
    /\ (txHandler \/ arrived # {}) => pcRead # "idle"

\* C18, amended: a successful Start starts the network client, starts the DA
\* client, launches the ingestion loop and the gossip loop, launches the
\* aggregation loop when and only when conf.Aggregator is set, and then
\* installs the tx handler; no transaction is on the channel before the
\* ingestion loop is launched.
C18_StartupOrder ==
    /\ Started =>
         /\ startLog = <<"P2P.Start", "dalc.Start", "go mempoolReadLoop",
                         "go mempoolPublishLoop">>
                       \o (IF aggregator THEN <<"go aggregationLoop">> ELSE <<>>)
                       \o <<"P2P.SetTxHandler">>
         /\ pcRead # "idle" /\ pcPub # "idle"
         /\ pcAgg # "idle" <=> aggregator
    /\ ~Started => pcRead = "idle" /\ pcPub = "idle" /\ pcAgg = "idle"
    /\ (txHandler \/ arrived # {}) => pcRead # "idle"

C18_Witness ==
    /\ Started
    /\ svc = "running"
    /\ ~aggregator
    /\ pcAgg = "idle"
    /\ pcRead = "select"
    /\ pcPub # "idle"
    /\ checked # <<>>
    /\ ticks = 0

\* C19: whatever admissions to and removals from the mempool happen, the
\* gossip loop never dereferences a nil cursor: its cursor is an entry
\* whenever it reads the entry's value or waits on the entry's successor.
C19_CursorNeverNil ==
    /\ pcPub # "panic"
    /\ pcPub \in {"send", "retry", "waitNext"} => next # NilElem

C19_Witness ==
    /\ pcPub = "panic"
    /\ next = NilElem
    /\ removed = Len(mempool)
    /\ removed > 0

\* C20: once OnStop has completed the loops make no further CheckTx, GossipTx
\* or SaveBlock call, and nothing is called on the stopped DA client or the
\* closed network client.
C20_QuiescentAfterStop ==
    [][svc = "stopped" =>
          /\ checked' = checked
          /\ ~(pcPub = "send" /\ pcPub' # "send")
          /\ gossiped' = gossiped
          /\ saves' = saves
          /\ daBlocks' = daBlocks]_vars

C20_Witness ==
    /\ svc = "stopped"
    /\ p2pState = "closed"
    /\ dalcState = "stopped"
    /\ ~ctxDone
    /\ pcRead = "select" /\ sending # {}
    /\ pcPub = "send"
    /\ pcAgg = "select" /\ mempool # <<>> /\ ticks < MaxTicks

====
